---- MODULE Spec2Model ----
(***************************************************************************)
(* Reconcilers of the Vault provider: the auth backend resource            *)
(* (vault/resource_auth_backend.go) and the GCP auth backend config        *)
(* resource (gcpAuthConfigResource).  One behaviour follows one resource   *)
(* instance of either type through the framework's calls of its Create /   *)
(* Update / Read / Delete / Exists callbacks against the remote store.     *)
(*                                                                         *)
(* Go strings that the code inspects or builds (paths, mount types,        *)
(* duration strings) are sequences of one-character strings; opaque        *)
(* strings (description, aliases, ...) are TLA+ strings.  A schema.Set and *)
(* the list made from it are a set of strings (Set.List() orders by hash,  *)
(* which no code here depends on).                                         *)
(***************************************************************************)
EXTENDS Integers, Sequences, FiniteSets, TLC

VARIABLES resource, d, configs, auths, payload, desired, last, fresh

vars == <<resource, d, configs, auths, payload, desired, last, fresh>>

\* ------------------------------------------------------------------ bounds
\* How many optional settings a configuration gives a value other than the
\* schema default (a metadata collection and its "default" flag are one setting).
MaxSetFields == 1

\* ------------------------------------------------------------- Go strings
Empty == << >>
Slash == <<"/">>

HasSuffix(s, suffix) ==
    /\ Len(s) >= Len(suffix)
    /\ SubSeq(s, Len(s) - Len(suffix) + 1, Len(s)) = suffix

RECURSIVE TrimLeft(_, _)
TrimLeft(s, c) ==
    IF s # Empty /\ Head(s) = c THEN TrimLeft(Tail(s), c) ELSE s

RECURSIVE TrimRight(_, _)
TrimRight(s, c) ==
    IF s # Empty /\ s[Len(s)] = c THEN TrimRight(SubSeq(s, 1, Len(s) - 1), c) ELSE s

\* strings.Trim(s, "/")
Trim(s) == TrimRight(TrimLeft(s, "/"), "/")

DigitChars == <<"0", "1", "2", "3", "4", "5", "6", "7", "8", "9">>

\* the %d verb
RECURSIVE Itoa(_)
Itoa(n) ==
    IF n < 10 THEN <<DigitChars[n + 1]>>
    ELSE Itoa(n \div 10) \o <<DigitChars[(n % 10) + 1]>>

SprintfSeconds_Minutes(n) == Itoa(n) \o <<"m">>

\* fmt.Sprintf("%ds", n)
SprintfSeconds(n) == Itoa(n) \o <<"s">>

\* ------------------------------------------------------------ JSON values
\* A value of a map[string]interface{} payload: a string or an array of strings.
JString(s) == [kind |-> "string", s |-> s, l |-> {}]
JArray(l) == [kind |-> "array", s |-> "", l |-> l]

\* ------------------------------------------------------- names and values
approle == <<"a", "p", "p", "r", "o", "l", "e">>
github == <<"g", "i", "t", "h", "u", "b">>
token == <<"t", "o", "k", "e", "n">>
gcp == <<"g", "c", "p">>

AuthBackend == "vault_auth_backend"
GcpAuthConfig == "vault_gcp_auth_backend_config"

NoPayload == [none |-> TRUE]

Last(op, err, failed, found, exists) ==
    [op |-> op, err |-> err, failed |-> failed, found |-> found, exists |-> exists,
     again |-> (op = "Delete" /\ last.op = "Delete")]

\* d.SetId(id)
SetId(rd, id) == [rd EXCEPT !.id = id]

\* ------------------------------------------- the remote store (logical API)
\* What the GCP auth method answers with when "default" was written.
ServerDefaultMetadata == {"project_id"}

GcpMetadataKeys == {"iam_metadata", "gce_metadata"}
GcpComputedKeys == {"client_id", "private_key_id", "project_id", "client_email"}

\* The object the store holds after a write of `data`: the payload replaces
\* what was there; the sentinel "default" stands for the server's own list,
\* and the attributes of the credentials are reported next to them.
StoredObject(data) ==
    [k \in DOMAIN data \cup (IF "credentials" \in DOMAIN data THEN GcpComputedKeys ELSE {}) |->
        IF k \in GcpComputedKeys THEN "from-credentials"
        ELSE IF k \in GcpMetadataKeys
             THEN (IF data[k].kind = "string" THEN ServerDefaultMetadata ELSE data[k].l)
             ELSE data[k].s]

\* client.Logical().Write(path, data), when the call succeeds
LogicalWrite(store, path, data) ==
    [p \in DOMAIN store \cup {path} |-> IF p = path THEN StoredObject(data) ELSE store[p]]

\* client.Logical().Read(path), when the call succeeds: nil for no object
LogicalRead(store, path) ==
    IF path \in DOMAIN store
    THEN [nil |-> FALSE, Data |-> store[path]]
    ELSE [nil |-> TRUE, Data |-> [k \in {} |-> ""]]

\* --------------------------------------------------------- GCP auth config
GcpPaths == {gcp, gcp \o Slash}

\* StateFunc of "path"
gcpPathStateFunc(v) == Trim(v)

gcpAuthBackendConfigPath(path) ==
    <<"a", "u", "t", "h", "/">> \o Trim(path) \o <<"/", "c", "o", "n", "f", "i", "g">>

\* The ResourceData of a new resource: every field at its schema default.
GcpNew ==
    [id |-> Empty, path |-> gcp, credentials |-> "", iam_alias |-> "", gce_alias |-> "",
     iam_metadata |-> {}, default_iam_metadata |-> TRUE,
     gce_metadata |-> {}, default_gce_metadata |-> TRUE,
     client_id |-> "", private_key_id |-> "", project_id |-> "", client_email |-> ""]

B2N(b) == IF b THEN 1 ELSE 0

GcpSetFields(rd) ==
    B2N(rd.credentials # "") + B2N(rd.iam_alias # "") + B2N(rd.gce_alias # "")
    + B2N(rd.iam_metadata # {} \/ ~rd.default_iam_metadata)
    + B2N(rd.gce_metadata # {} \/ ~rd.default_gce_metadata)

\* The values a configuration gives to the fields a user may set.
GcpUserConfigs ==
    {cfg \in {[GcpNew EXCEPT !.path = t[1], !.credentials = t[2],
                             !.iam_alias = t[3], !.gce_alias = t[4],
                             !.iam_metadata = t[5], !.default_iam_metadata = t[6],
                             !.gce_metadata = t[7], !.default_gce_metadata = t[8]] :
                 t \in GcpPaths
                       \X {"", "{}"} \X {"", "unique_id"} \X {"", "instance_id"}
                       \X {{}, {"foo=bar"}} \X BOOLEAN
                       \X {{}, {"foo=bar"}} \X BOOLEAN} :
        GcpSetFields(cfg) <= MaxSetFields}

\* The ResourceData the framework hands to Create (a new resource, any path)
\* or to Update (the existing resource with its computed attributes; path is
\* ForceNew, so it is the one the resource has).
GcpDesired(rd, cfg) ==
    IF rd.id = Empty THEN cfg
    ELSE [cfg EXCEPT !.id = rd.id, !.path = rd.path,
                     !.client_id = rd.client_id, !.private_key_id = rd.private_key_id,
                     !.project_id = rd.project_id, !.client_email = rd.client_email]

\* d.GetOk(k) of a string field: set and not the zero value
GetOk(rd, k) == rd[k] # ""

gcpWriteData_ContentsWin(rd) ==
    [k \in {f \in {"credentials", "iam_alias", "gce_alias"} : GetOk(rd, f)} \cup GcpMetadataKeys |->
        CASE k = "iam_metadata" ->
                IF rd.default_iam_metadata /\ rd.iam_metadata = {}
                THEN JString("default") ELSE JArray(rd.iam_metadata)
          [] k = "gce_metadata" ->
                IF rd.default_gce_metadata /\ rd.gce_metadata = {}
                THEN JString("default") ELSE JArray(rd.gce_metadata)
          [] OTHER -> JString(rd[k])]

\* gcpAuthConfigureWrite: the payload
gcpWriteData(rd) ==
    [k \in {f \in {"credentials", "iam_alias", "gce_alias"} : GetOk(rd, f)} \cup GcpMetadataKeys |->
        CASE k = "iam_metadata" ->
                IF rd.default_iam_metadata THEN JString("default") ELSE JArray(rd.iam_metadata)
          [] k = "gce_metadata" ->
                IF rd.default_gce_metadata THEN JString("default") ELSE JArray(rd.gce_metadata)
          [] OTHER -> JString(rd[k])]

gcpWriteError_KeepsId(rd) == rd

\* gcpAuthConfigureWrite: the remote write failed
gcpWriteError(rd) == SetId(rd, Empty)

GcpReadKeys ==
    <<"credentials", "iam_alias", "gce_alias", "iam_metadata", "gce_metadata",
      "private_key_id", "client_id", "project_id", "client_email">>

\* gcpAuthConfigureRead: the loop over the keys of the response
RECURSIVE gcpReadFields(_, _, _)
gcpReadFields(rd, keys, data) ==
    IF keys = << >> THEN rd
    ELSE gcpReadFields(
            IF Head(keys) \in DOMAIN data THEN [rd EXCEPT ![Head(keys)] = data[Head(keys)]] ELSE rd,
            Tail(keys), data)

gcpAuthConfigureRead_KeepsIdWhenAbsent(rd, resp, callErr) ==
    IF callErr THEN [d |-> rd, err |-> TRUE]
    ELSE IF resp.nil THEN [d |-> rd, err |-> FALSE]
    ELSE [d |-> gcpReadFields(rd, GcpReadKeys, resp.Data), err |-> FALSE]

gcpAuthConfigureRead_ClearsIdOnError(rd, resp, callErr) ==
    IF callErr THEN [d |-> SetId(rd, Empty), err |-> TRUE]
    ELSE IF resp.nil THEN [d |-> SetId(rd, Empty), err |-> FALSE]
    ELSE [d |-> gcpReadFields(rd, GcpReadKeys, resp.Data), err |-> FALSE]

gcpAuthConfigureRead(rd, resp, callErr) ==
    IF callErr THEN [d |-> rd, err |-> TRUE]
    ELSE IF resp.nil THEN [d |-> SetId(rd, Empty), err |-> FALSE]
    ELSE [d |-> gcpReadFields(rd, GcpReadKeys, resp.Data), err |-> FALSE]

gcpAuthConfigureWrite(cfg, store, writeErr, readErr) ==
    LET d0 == SetId(cfg, cfg.path)
        path == gcpAuthBackendConfigPath(d0.id)
        data == gcpWriteData(d0)
        written == LogicalWrite(store, path, data)
        resp == LogicalRead(written, path)
        r == gcpAuthConfigureRead(d0, resp, readErr)
    IN  IF writeErr
        THEN [d |-> gcpWriteError(d0), err |-> TRUE, configs |-> store, data |-> data,
              found |-> FALSE]
        ELSE [d |-> r.d, err |-> r.err, configs |-> written, data |-> data,
              found |-> ~readErr /\ ~resp.nil]

gcpAuthConfigureDelete(rd, store, callErr) ==
    LET path == gcpAuthBackendConfigPath(rd.id)
    IN  [err |-> callErr,
         configs |-> IF callErr THEN store ELSE LogicalWrite(store, path, [k \in {} |-> ""]),
         data |-> [k \in {} |-> ""]]

gcpAuthConfigureExists_AbsentOnError(rd, store, callErr) ==
    LET resp == LogicalRead(store, gcpAuthBackendConfigPath(rd.id))
    IN  IF callErr THEN [exists |-> FALSE, err |-> TRUE]
        ELSE [exists |-> ~resp.nil, err |-> FALSE]

gcpAuthConfigureExists(rd, store, callErr) ==
    LET resp == LogicalRead(store, gcpAuthBackendConfigPath(rd.id))
    IN  IF callErr THEN [exists |-> TRUE, err |-> TRUE]
        ELSE [exists |-> ~resp.nil, err |-> FALSE]

\* The store holds a configuration (not the reset, empty one) for the identity.
GcpConfigured(store, id) ==
    /\ gcpAuthBackendConfigPath(id) \in DOMAIN store
    /\ DOMAIN store[gcpAuthBackendConfigPath(id)] # {}

GcpWrite ==
    /\ resource = GcpAuthConfig
    /\ \E cfg \in GcpUserConfigs, failed \in {"none", "write", "read"} :
        /\ d.id = Empty \/ cfg.path = d.path
        /\ \E r \in {gcpAuthConfigureWrite(GcpDesired(d, cfg), configs,
                                           failed = "write", failed = "read")} :
            /\ d' = r.d
            /\ configs' = r.configs
            /\ payload' = r.data
            /\ desired' = GcpDesired(d, cfg)
            /\ last' = Last("Write", r.err, failed, r.found, FALSE)
            /\ fresh' = (~r.err /\ r.found)
    /\ UNCHANGED <<resource, auths>>

GcpRead ==
    /\ resource = GcpAuthConfig
    /\ d.id # Empty
    /\ \E callErr \in BOOLEAN :
        LET resp == LogicalRead(configs, gcpAuthBackendConfigPath(d.id))
            r == gcpAuthConfigureRead(d, resp, callErr)
        IN  /\ d' = r.d
            /\ last' = Last("Read", r.err, IF callErr THEN "read" ELSE "none",
                            ~callErr /\ ~resp.nil, FALSE)
    /\ UNCHANGED <<resource, configs, auths, payload, desired, fresh>>

GcpDelete ==
    /\ resource = GcpAuthConfig
    /\ d.id # Empty
    /\ \E callErr \in BOOLEAN :
        LET r == gcpAuthConfigureDelete(d, configs, callErr)
        IN  /\ configs' = r.configs
            /\ last' = Last("Delete", r.err, IF callErr THEN "write" ELSE "none",
                            GcpConfigured(configs, d.id), FALSE)
            /\ fresh' = (fresh /\ callErr)
    /\ UNCHANGED <<resource, d, auths, payload, desired>>

GcpExists ==
    /\ resource = GcpAuthConfig
    /\ d.id # Empty
    /\ \E callErr \in BOOLEAN :
        LET r == gcpAuthConfigureExists(d, configs, callErr)
        IN  last' = Last("Exists", r.err, IF callErr THEN "read" ELSE "none", FALSE, r.exists)
    /\ UNCHANGED <<resource, d, configs, auths, payload, desired, fresh>>

\* The object is removed from the store by someone else (the mount is disabled).
GcpRemoved ==
    /\ resource = GcpAuthConfig
    /\ \E p \in DOMAIN configs :
        configs' = [q \in DOMAIN configs \ {p} |-> configs[q]]
    /\ last' = Last("Removed", FALSE, "none", FALSE, FALSE)
    /\ fresh' = FALSE
    /\ UNCHANGED <<resource, d, auths, payload, desired>>
\* ------------------------------------------------ the remote store (sys/auth)
DigitValue(c) == CHOOSE i \in 0..9 : DigitChars[i + 1] = c

RECURSIVE Atoi(_)
Atoi(ds) ==
    IF ds = Empty THEN 0
    ELSE Atoi(SubSeq(ds, 1, Len(ds) - 1)) * 10 + DigitValue(ds[Len(ds)])

\* The server reads a duration string ("3600s", "60m", "1h", or bare seconds)
\* as a number of seconds.
ParseDuration(s) ==
    IF s = Empty THEN 0
    ELSE IF s[Len(s)] = "s" THEN Atoi(SubSeq(s, 1, Len(s) - 1))
    ELSE IF s[Len(s)] = "m" THEN 60 * Atoi(SubSeq(s, 1, Len(s) - 1))
    ELSE IF s[Len(s)] = "h" THEN 3600 * Atoi(SubSeq(s, 1, Len(s) - 1))
    ELSE Atoi(s)

\* The token auth method is always mounted.
TokenMount ==
    [Type |-> token, Description |-> "token based credentials",
     Config |-> [DefaultLeaseTTL |-> 0, MaxLeaseTTL |-> 0, ListingVisibility |-> ""],
     Local |-> FALSE, Accessor |-> "auth_token"]

MountKey(path) == IF HasSuffix(path, Slash) THEN path ELSE path \o Slash

\* client.Sys().EnableAuthWithOptions(path, options), when the call succeeds
EnableAuth(mounts, path, options) ==
    [p \in DOMAIN mounts \cup {MountKey(path)} |->
        IF p = MountKey(path)
        THEN [Type |-> options.Type, Description |-> options.Description,
              Config |-> [DefaultLeaseTTL |-> ParseDuration(options.Config.DefaultLeaseTTL),
                          MaxLeaseTTL |-> ParseDuration(options.Config.MaxLeaseTTL),
                          ListingVisibility |-> options.Config.ListingVisibility],
              Local |-> options.Local, Accessor |-> "auth_accessor"]
        ELSE mounts[p]]

\* client.Sys().DisableAuth(path), when the call succeeds
DisableAuth(mounts, path) ==
    [p \in DOMAIN mounts \ {MountKey(path)} |-> mounts[p]]

\* ------------------------------------------------------------ auth backend
\* ValidateFunc of "path": TRUE when the value is accepted
pathValidate(value) == ~HasSuffix(value, Slash)

\* DiffSuppressFunc of "path"
pathDiffSuppress(old, new) == old \o Slash = new \/ new \o Slash = old

\* The configured paths that pass validation.
ABPaths == {p \in {Empty, approle, approle \o Slash} : pathValidate(p)}

ABNew ==
    [id |-> Empty, type |-> approle, path |-> Empty, description |-> "",
     default_lease_ttl_seconds |-> 0, max_lease_ttl_seconds |-> 0,
     audit_non_hmac_request_keys |-> {}, audit_non_hmac_response_keys |-> {},
     listing_visibility |-> "", passthrough_request_headers |-> {},
     local |-> FALSE, accessor |-> ""]

ABSetFields(rd) ==
    B2N(rd.path # Empty) + B2N(rd.description # "")
    + B2N(rd.default_lease_ttl_seconds # 0) + B2N(rd.max_lease_ttl_seconds # 0)
    + B2N(rd.audit_non_hmac_request_keys # {}) + B2N(rd.audit_non_hmac_response_keys # {})
    + B2N(rd.listing_visibility # "") + B2N(rd.passthrough_request_headers # {})
    + B2N(rd.local)

\* The desired states the framework hands to Create, after validation.
ABConfigs ==
    {cfg \in {[ABNew EXCEPT !.type = t[1], !.path = t[2], !.description = t[3],
                            !.default_lease_ttl_seconds = t[4],
                            !.max_lease_ttl_seconds = t[5],
                            !.audit_non_hmac_request_keys = t[6],
                            !.audit_non_hmac_response_keys = t[7],
                            !.listing_visibility = t[8],
                            !.passthrough_request_headers = t[9],
                            !.local = t[10]] :
                 t \in {approle, github} \X ABPaths \X {"", "managed"}
                       \X {0, 3600} \X {0, 7200}
                       \X {{}, {"key"}} \X {{}, {"key"}} \X {"", "unauth"}
                       \X {{}, {"X-Header"}} \X BOOLEAN} :
        ABSetFields(cfg) <= MaxSetFields}

\* authBackendWrite: the options of the call
authBackendOptions(rd) ==
    [Type |-> rd.type,
     Description |-> rd.description,
     Config |-> [DefaultLeaseTTL |-> SprintfSeconds(rd.default_lease_ttl_seconds),
                 MaxLeaseTTL |-> SprintfSeconds(rd.max_lease_ttl_seconds),
                 AuditNonHMACRequestKeys |-> rd.audit_non_hmac_request_keys,
                 AuditNonHMACResponseKeys |-> rd.audit_non_hmac_response_keys,
                 ListingVisibility |-> rd.listing_visibility,
                 PassthroughRequestHeaders |-> rd.passthrough_request_headers],
     Local |-> rd.local]

authBackendRead_ClearsIdOnError(rd, list, callErr) ==
    LET targetPath == rd.id \o Slash
        matches == {path \in DOMAIN list : path = targetPath}
    IN  IF callErr THEN [d |-> SetId(rd, Empty), err |-> TRUE]
        ELSE IF matches # {}
        THEN LET path == CHOOSE p \in matches : TRUE
                 auth == list[path]
             IN  [d |-> [rd EXCEPT !.type = auth.Type,
                                   !.path = path,
                                   !.description = auth.Description,
                                   !.default_lease_ttl_seconds = auth.Config.DefaultLeaseTTL,
                                   !.max_lease_ttl_seconds = auth.Config.MaxLeaseTTL,
                                   !.listing_visibility = auth.Config.ListingVisibility,
                                   !.local = auth.Local,
                                   !.accessor = auth.Accessor],
                  err |-> FALSE]
        ELSE [d |-> SetId(rd, Empty), err |-> FALSE]

authBackendRead(rd, list, callErr) ==
    LET targetPath == rd.id \o Slash
        matches == {path \in DOMAIN list : path = targetPath}
    IN  IF callErr THEN [d |-> rd, err |-> TRUE]
        ELSE IF matches # {}
        THEN LET path == CHOOSE p \in matches : TRUE
                 auth == list[path]
             IN  [d |-> [rd EXCEPT !.type = auth.Type,
                                   !.path = path,
                                   !.description = auth.Description,
                                   !.default_lease_ttl_seconds = auth.Config.DefaultLeaseTTL,
                                   !.max_lease_ttl_seconds = auth.Config.MaxLeaseTTL,
                                   !.listing_visibility = auth.Config.ListingVisibility,
                                   !.local = auth.Local,
                                   !.accessor = auth.Accessor],
                  err |-> FALSE]
        ELSE [d |-> SetId(rd, Empty), err |-> FALSE]

authBackendWrite(cfg, mounts, writeErr, readErr) ==
    LET mountType == cfg.type
        options == authBackendOptions(cfg)
        path == IF cfg.path = Empty THEN mountType ELSE cfg.path
        enabled == EnableAuth(mounts, path, options)
        r == authBackendRead(SetId(cfg, path), enabled, readErr)
    IN  IF writeErr
        THEN [d |-> cfg, err |-> TRUE, auths |-> mounts, options |-> options, found |-> FALSE]
        ELSE [d |-> r.d, err |-> r.err, auths |-> enabled, options |-> options,
              found |-> ~readErr /\ MountKey(path) \in DOMAIN enabled]

authBackendDelete_FailsWhenAbsent(rd, mounts, callErr) ==
    LET path == rd.id
    IN  [err |-> callErr \/ MountKey(path) \notin DOMAIN mounts,
         auths |-> IF callErr THEN mounts ELSE DisableAuth(mounts, path)]

authBackendDelete(rd, mounts, callErr) ==
    LET path == rd.id
    IN  [err |-> callErr,
         auths |-> IF callErr THEN mounts ELSE DisableAuth(mounts, path)]

\* Create: the framework calls it for a resource that has no identity yet.
ABWrite ==
    /\ resource = AuthBackend
    /\ d.id = Empty
    /\ \E cfg \in ABConfigs, failed \in {"none", "write", "read"} :
        \E r \in {authBackendWrite(cfg, auths, failed = "write", failed = "read")} :
            /\ d' = r.d
            /\ auths' = r.auths
            /\ payload' = r.options
            /\ desired' = cfg
            /\ last' = Last("Write", r.err, failed, r.found, FALSE)
            /\ fresh' = (~r.err /\ r.found)
    /\ UNCHANGED <<resource, configs>>

ABRead ==
    /\ resource = AuthBackend
    /\ d.id # Empty
    /\ \E callErr \in BOOLEAN :
        LET r == authBackendRead(d, auths, callErr)
        IN  /\ d' = r.d
            /\ last' = Last("Read", r.err, IF callErr THEN "read" ELSE "none",
                            ~callErr /\ (d.id \o Slash) \in DOMAIN auths, FALSE)
    /\ UNCHANGED <<resource, configs, auths, payload, desired, fresh>>

ABDelete ==
    /\ resource = AuthBackend
    /\ d.id # Empty
    /\ \E callErr \in BOOLEAN :
        LET r == authBackendDelete(d, auths, callErr)
        IN  /\ auths' = r.auths
            /\ last' = Last("Delete", r.err, IF callErr THEN "disable" ELSE "none",
                            MountKey(d.id) \in DOMAIN auths, FALSE)
            /\ fresh' = (fresh /\ callErr)
    /\ UNCHANGED <<resource, d, configs, payload, desired>>

\* The mount is disabled by someone else.
ABRemoved ==
    /\ resource = AuthBackend
    /\ \E p \in DOMAIN auths \ {MountKey(token)} :
        auths' = [q \in DOMAIN auths \ {p} |-> auths[q]]
    /\ last' = Last("Removed", FALSE, "none", FALSE, FALSE)
    /\ fresh' = FALSE
    /\ UNCHANGED <<resource, d, configs, payload, desired>>

\* ---------------------------------------------------------- specification
Init ==
    /\ resource \in {AuthBackend, GcpAuthConfig}
    /\ d = IF resource = AuthBackend THEN ABNew ELSE GcpNew
    /\ configs = [p \in {} |-> ""]
    /\ auths = [p \in {MountKey(token)} |-> TokenMount]
    /\ payload = NoPayload
    /\ desired = d
    /\ last = [op |-> "None", err |-> FALSE, failed |-> "none", found |-> FALSE,
               exists |-> FALSE, again |-> FALSE]
    /\ fresh = FALSE

Next ==
    \/ ABWrite
    \/ ABRead
    \/ ABDelete
    \/ ABRemoved
    \/ GcpWrite
    \/ GcpRead
    \/ GcpDelete
    \/ GcpExists
    \/ GcpRemoved

Spec == Init /\ [][Next]_vars
\* ------------------------------------------------------------- properties
\* The path a Write addresses: what it sets the identity to.
WrittenPath ==
    IF resource = AuthBackend
    THEN (IF desired.path = Empty THEN desired.type ELSE desired.path)
    ELSE desired.path

\* The store holds an object at the address of the local identity.
RemotePresent ==
    IF resource = AuthBackend
    THEN (d.id \o Slash) \in DOMAIN auths
    ELSE gcpAuthBackendConfigPath(d.id) \in DOMAIN configs

\* C1: when the remote write call of a Write fails, Write returns an error
\* and the local identity is empty on return (GCP auth config: create and
\* update; auth backend: create).
C1_FailedWriteCallClearsIdentity ==
    (last.op = "Write" /\ last.failed = "write") => (d.id = Empty /\ last.err)

\* A GCP auth config Update of an existing resource whose remote write failed.
C1_Witness ==
    /\ resource = GcpAuthConfig
    /\ last.op = "Write" /\ last.failed = "write"
    /\ desired.id # Empty
    /\ d.id = Empty /\ last.err

\* C2 as stated: whenever a Write returns an error, the local identity is
\* empty on return.
C2_ErrorImpliesEmptyIdentity ==
    (last.op = "Write" /\ last.err) => d.id = Empty

\* C2 amended: a Write that returns an error leaves the identity empty when
\* its remote write call failed; when the read-back failed after a successful
\* remote write, the identity is the path just written, and the store holds
\* the object at it.
C2_ErrorIdentityFollowsFailedCall ==
    (last.op = "Write" /\ last.err) =>
        IF last.failed = "write" THEN d.id = Empty
        ELSE /\ last.failed = "read"
             /\ d.id # Empty
             /\ d.id = WrittenPath
             /\ RemotePresent

C2_Witness ==
    /\ last.op = "Write" /\ last.err /\ last.failed = "read"
    /\ d.id # Empty /\ RemotePresent

\* C3: a Read whose remote call succeeds returns no error; it sets the
\* identity to empty when no object is found (nil response; no listing key
\* equal to identity + "/"), and leaves the identity as it was when one is.
C3_ReadAbsentClearsIdentity ==
    [][(last'.op = "Read" /\ last'.failed = "none") =>
          /\ ~last'.err
          /\ IF last'.found THEN d'.id = d.id ELSE d'.id = Empty]_vars

\* A Read of a resource with an identity found nothing and cleared it.
C3_Witness ==
    /\ last.op = "Read" /\ last.failed = "none" /\ ~last.found
    /\ d.id = Empty /\ ~last.err /\ ~RemotePresent

\* C4: a Read whose remote call fails returns an error and leaves the local
\* record as it was; a Read that finds the object absent returns no error and
\* clears the identity.
C4_FailedReadLeavesRecord ==
    [][/\ (last'.op = "Read" /\ last'.failed = "read") => (last'.err /\ d' = d)
       /\ (last'.op = "Read" /\ last'.failed = "none" /\ ~last'.found) =>
              (~last'.err /\ d'.id = Empty)]_vars

\* The read call failed while the object was gone: the identity is kept.
C4_Witness ==
    /\ last.op = "Read" /\ last.failed = "read" /\ last.err
    /\ d.id # Empty /\ ~RemotePresent

\* C5: the existence check returns (true, error) when its read call fails,
\* whether or not the object exists; otherwise it returns no error and true
\* exactly when the response is non-nil.
C5_ExistsResult ==
    last.op = "Exists" =>
        IF last.failed = "read" THEN last.exists /\ last.err
        ELSE ~last.err /\ (last.exists <=> RemotePresent)

C5_Witness ==
    /\ last.op = "Exists" /\ last.failed = "read"
    /\ last.exists /\ last.err /\ ~RemotePresent

\* C6: a Delete that follows a Delete returns no error unless its remote call
\* fails: it does not fail because the object is already gone or reset.
C6_DeleteIsIdempotent ==
    (last.op = "Delete" /\ last.again /\ last.failed = "none") => ~last.err

\* The second Delete found the mount already disabled and returned no error.
C6_Witness ==
    /\ resource = AuthBackend
    /\ last.op = "Delete" /\ last.again /\ last.failed = "none"
    /\ ~last.found /\ ~last.err

\* C7: the payload of a GCP auth config Write carries "default" for a
\* metadata field whose default flag is true, whatever the collection holds,
\* and the collection's contents when the flag is false.
C7_DefaultSentinel ==
    (resource = GcpAuthConfig /\ payload # NoPayload) =>
        /\ payload["iam_metadata"] =
              (IF desired.default_iam_metadata THEN JString("default")
               ELSE JArray(desired.iam_metadata))
        /\ payload["gce_metadata"] =
              (IF desired.default_gce_metadata THEN JString("default")
               ELSE JArray(desired.gce_metadata))

C7_Witness ==
    /\ resource = GcpAuthConfig /\ payload # NoPayload
    /\ desired.default_iam_metadata /\ desired.iam_metadata = {"foo=bar"}
    /\ payload["iam_metadata"] = JString("default")

\* C8: the payload of a Write carries no value for an optional field that the
\* desired state leaves unset.
C8_UnsetFieldsNotSent ==
    payload # NoPayload =>
        IF resource = GcpAuthConfig
        THEN \A k \in {"credentials", "iam_alias", "gce_alias"} :
                desired[k] = "" => k \notin DOMAIN payload
        ELSE /\ desired.description = "" => payload.Description = ""
             /\ desired.listing_visibility = "" => payload.Config.ListingVisibility = ""
             /\ desired.audit_non_hmac_request_keys = {} =>
                    payload.Config.AuditNonHMACRequestKeys = {}
             /\ desired.audit_non_hmac_response_keys = {} =>
                    payload.Config.AuditNonHMACResponseKeys = {}
             /\ desired.passthrough_request_headers = {} =>
                    payload.Config.PassthroughRequestHeaders = {}
             /\ desired.default_lease_ttl_seconds = 0 =>
                    payload.Config.DefaultLeaseTTL = Empty
             /\ desired.max_lease_ttl_seconds = 0 =>
                    payload.Config.MaxLeaseTTL = Empty

\* The local record agrees with the desired state on the fields that were sent.
AgreesWithDesired ==
    IF resource = AuthBackend
    THEN /\ d.type = desired.type
         /\ d.description = desired.description
         /\ d.default_lease_ttl_seconds = desired.default_lease_ttl_seconds
         /\ d.max_lease_ttl_seconds = desired.max_lease_ttl_seconds
         /\ d.listing_visibility = desired.listing_visibility
         /\ d.local = desired.local
         /\ d.audit_non_hmac_request_keys = desired.audit_non_hmac_request_keys
         /\ d.audit_non_hmac_response_keys = desired.audit_non_hmac_response_keys
         /\ d.passthrough_request_headers = desired.passthrough_request_headers
         /\ d.path = WrittenPath \/ pathDiffSuppress(WrittenPath, d.path)
    ELSE \A k \in DOMAIN payload :
            (k \in GcpMetadataKeys => payload[k].kind = "array") => d[k] = desired[k]

\* C9: after a successful Write, and after any later Read while the store is
\* not changed, the local record agrees with the desired state on the fields
\* written; type=approle with default_lease_ttl_seconds=3600 is sent as Type
\* "approle" and Config.DefaultLeaseTTL "3600s" and read back as approle, 3600.
C9_ReadAfterWrite ==
    fresh =>
        /\ AgreesWithDesired
        /\ d.id = WrittenPath
        /\ (resource = AuthBackend /\ desired.type = approle
            /\ desired.default_lease_ttl_seconds = 3600) =>
                /\ payload.Type = approle
                /\ payload.Config.DefaultLeaseTTL = <<"3", "6", "0", "0", "s">>
                /\ d.type = approle
                /\ d.default_lease_ttl_seconds = 3600

\* A Read that follows the Write of approle with a 3600 seconds default lease.
C9_Witness ==
    /\ fresh /\ resource = AuthBackend /\ last.op = "Read" /\ ~last.err
    /\ desired.type = approle /\ desired.default_lease_ttl_seconds = 3600
    /\ d.type = approle /\ d.default_lease_ttl_seconds = 3600

\* C10: a non-empty local identity never ends with the separator, and a path
\* given with and without a trailing "/" is the same remote address and no
\* diff.
C10_IdentityHasNoTrailingSeparator ==
    /\ d.id # Empty => ~HasSuffix(d.id, Slash)
    /\ gcpAuthBackendConfigPath(gcp) = gcpAuthBackendConfigPath(gcp \o Slash)
    /\ gcpPathStateFunc(gcp) = gcpPathStateFunc(gcp \o Slash)
    /\ pathDiffSuppress(approle, approle \o Slash)
====
